---- MODULE Spec2Model ----
(***************************************************************************)
(* hoa2pg: translation of a deterministic, complete, colored parity        *)
(* automaton (HoaData) into a PGSolver parity game.                        *)
(*                                                                         *)
(* The module models main() of hoa2pg.c as a state machine over the parsed *)
(* automaton, and the two pure helpers evalLabel and adjustPriority as     *)
(* operators.  Three specifications are given:                             *)
(*   Spec       - a run of main() on a bounded family of parsed automata   *)
(*   SpecAdjust - adjustPriority applied to bounded inputs                 *)
(*   SpecEval   - evalLabel applied to bounded label trees                 *)
(***************************************************************************)
EXTENDS Integers, Sequences, FiniteSets, TLC

VARIABLES
    data,         \* HoaData* data: the parsed automaton (read-only)
    pc,           \* position of main()
    ret,          \* exit status of the process once it has ended
    out,          \* lines written to stdout so far
    maxPriority,  \* bool maxPriority
    winRes,       \* short winRes
    ucntAPs,      \* int ucntAPs[numUcntAPs]
    nextIndex,    \* int nextIndex
    state,        \* StateList* state, as a position in data.states
    firstSucc,    \* int firstSucc
    value,        \* unsigned value
    trans,        \* TransList* trans, as a position in the transitions
    validVals,    \* IntList* validVals
    args,         \* arguments of the pure function under SpecAdjust/SpecEval
    result        \* its result

vars == <<data, pc, ret, out, maxPriority, winRes, ucntAPs, nextIndex, state,
          firstSucc, value, trans, validVals, args, result>>

(***************************************************************************)
(* Bounds of the model                                                     *)
(***************************************************************************)
MaxStates == 2      \* states per automaton
MaxAccSets == 3     \* largest number of acceptance sets
MaxParams == 3      \* longest acceptance-name parameter list
MaxPriorities == 4  \* largest noPriorities handed to adjustPriority alone
NumAPs == 2         \* atomic propositions of the label trees under SpecEval

(***************************************************************************)
(* Generic helpers                                                         *)
(***************************************************************************)
RECURSIVE Pow2(_)
Pow2(n) == IF n = 0 THEN 1 ELSE 2 * Pow2(n - 1)

SeqsUpTo(S, n) == UNION {[1..k -> S] : k \in 0..n}

Range(s) == {s[i] : i \in 1..Len(s)}

Reverse(s) == [i \in 1..Len(s) |-> s[Len(s) + 1 - i]]

Undef == "undef"

(***************************************************************************)
(* simplehoa.h: expression trees                                           *)
(***************************************************************************)
\* A NULL BTree pointer.
Null == [type |-> "NULL"]

BTree(t, l, r, a, i) == [type |-> t, left |-> l, right |-> r, alias |-> a, id |-> i]

boolBTree(b) == BTree("NT_BOOL", Null, Null, "", IF b THEN 1 ELSE 0)
andBTree(l, r) == BTree("NT_AND", l, r, "", 0)
orBTree(l, r) == BTree("NT_OR", l, r, "", 0)
notBTree(l) == BTree("NT_NOT", l, Null, "", 0)
aliasBTree(a) == BTree("NT_ALIAS", Null, Null, a, 0)
apBTree(i) == BTree("NT_AP", Null, Null, "", i)

\* An AliasList node.
Alias(name, expr) == [alias |-> name, labelExpr |-> expr]

\* prependIntNode(list, i): the new node goes to the front of the list.
prependIntNode(list, i) == <<i>> \o list

(***************************************************************************)
(* hoa2pg.c: evalLabel                                                     *)
(***************************************************************************)
\* evalAP with the mask never shifted: every position tests bit 0.
RECURSIVE evalAP_noShift(_, _, _, _, _)
evalAP_noShift(id, numAPs, apIds, val, i) ==
    IF i >= numAPs THEN 0
    ELSE IF id = apIds[i + 1]
         THEN (IF val % 2 = 1 THEN 1 ELSE -1)
         ELSE evalAP_noShift(id, numAPs, apIds, val, i + 1)

\* The loop of case NT_AP: the first position i (from 0) with
\* label->id == apIds[i] decides, by bit i of value; 0 when there is none.
RECURSIVE evalAP(_, _, _, _, _)
evalAP(id, numAPs, apIds, val, i) ==
    IF i >= numAPs THEN 0
    ELSE IF id = apIds[i + 1]
         THEN (IF (val \div Pow2(i)) % 2 = 1 THEN 1 ELSE -1)
         ELSE evalAP(id, numAPs, apIds, val, i + 1)

RECURSIVE evalLabel(_, _, _, _, _)
RECURSIVE evalAlias(_, _, _, _, _, _)

\* The loop of case NT_ALIAS over the alias list from position k: the first
\* entry with the label's name is evaluated; falling off the list breaks
\* out of the switch and returns -2.
evalAlias(label, aliases, numAPs, apIds, val, k) ==
    IF k > Len(aliases) THEN -2
    ELSE IF aliases[k].alias = label.alias
         THEN evalLabel(aliases[k].labelExpr, aliases, numAPs, apIds, val)
         ELSE evalAlias(label, aliases, numAPs, apIds, val, k + 1)

evalLabel(label, aliases, numAPs, apIds, val) ==
    CASE label.type = "NT_BOOL" -> (IF label.id /= 0 THEN 1 ELSE -1)
      [] label.type = "NT_AND" ->
            LET left == evalLabel(label.left, aliases, numAPs, apIds, val)
                right == evalLabel(label.right, aliases, numAPs, apIds, val)
            IN  IF left = -1 \/ right = -1 THEN -1
                ELSE IF left = 0 \/ right = 0 THEN 0
                ELSE 1
      [] label.type = "NT_OR" ->
            LET left == evalLabel(label.left, aliases, numAPs, apIds, val)
                right == evalLabel(label.right, aliases, numAPs, apIds, val)
            IN  IF left = 1 \/ right = 1 THEN 1
                ELSE IF left = 0 \/ right = 0 THEN 0
                ELSE -1
      [] label.type = "NT_NOT" ->
            (-1) * evalLabel(label.left, aliases, numAPs, apIds, val)
      [] label.type = "NT_AP" -> evalAP(label.id, numAPs, apIds, val, 0)
      [] label.type = "NT_ALIAS" -> evalAlias(label, aliases, numAPs, apIds, val, 1)
      [] OTHER -> -2

(***************************************************************************)
(* hoa2pg.c: adjustPriority                                                *)
(***************************************************************************)
\* evenMaxOf without the rounding to an even number.
evenMaxOf_noRound(noPriorities) == noPriorities

evenMaxOf(noPriorities) ==
    IF noPriorities % 2 /= 0 THEN noPriorities + 1 ELSE noPriorities

\* adjustPriority shifting by one less.
adjustPriority_shiftOne(p, maxPrio, winR, noPriorities) ==
    LET evenMax == evenMaxOf(noPriorities)
        pForMax == IF maxPrio THEN p ELSE evenMax - p
    IN  pForMax + (1 - winR)

adjustPriority(p, maxPrio, winR, noPriorities) ==
    LET evenMax == evenMaxOf(noPriorities)
        pForMax == IF maxPrio THEN p ELSE evenMax - p
        shifted == pForMax + (2 - winR)
    IN  shifted

(***************************************************************************)
(* hoa2pg.c: main, the semantic checks                                     *)
(***************************************************************************)
\* scanParams in which the first "max"/"min" and the first "even"/"odd" stay.
RECURSIVE scanParams_firstWins(_, _, _)
scanParams_firstWins(params, k, f) ==
    IF k > Len(params) THEN f
    ELSE LET s == params[k]
             f1 == IF s \in {"max", "min"} /\ ~f.foundOrd
                   THEN [f EXCEPT !.maxPriority = (s = "max"), !.foundOrd = TRUE] ELSE f
             f2 == IF s \in {"even", "odd"} /\ ~f1.foundRes
                   THEN [f1 EXCEPT !.winRes = (IF s = "even" THEN 0 ELSE 1), !.foundRes = TRUE]
                   ELSE f1
         IN  scanParams_firstWins(params, k + 1, f2)

\* The loop over data->accNameParameters from position k on, f being the
\* four locals foundOrd, maxPriority, foundRes, winRes.
RECURSIVE scanParams(_, _, _)
scanParams(params, k, f) ==
    IF k > Len(params) THEN f
    ELSE LET s == params[k]
             f1 == IF s = "max" THEN [f EXCEPT !.maxPriority = TRUE, !.foundOrd = TRUE] ELSE f
             f2 == IF s = "min" THEN [f1 EXCEPT !.maxPriority = FALSE, !.foundOrd = TRUE] ELSE f1
             f3 == IF s = "even" THEN [f2 EXCEPT !.winRes = 0, !.foundRes = TRUE] ELSE f2
             f4 == IF s = "odd" THEN [f3 EXCEPT !.winRes = 1, !.foundRes = TRUE] ELSE f3
         IN  scanParams(params, k + 1, f4)

accParams(d) ==
    scanParams(d.accNameParameters, 1,
               [foundOrd |-> FALSE, maxPriority |-> Undef,
                foundRes |-> FALSE, winRes |-> Undef])

\* The loop over data->properties: strcmp(prop->str, name) == 0 for some node.
hasProperty(d, name) == \E k \in 1..Len(d.properties) : d.properties[k] = name

\* validationCode with the start state checked before the properties.
validationCode_startFirst(d) ==
    LET f == accParams(d)
    IN  IF d.accNameID /= "parity" THEN 100
        ELSE IF ~f.foundOrd THEN 101
        ELSE IF ~f.foundRes THEN 102
        ELSE IF Len(d.start) /= 1 THEN 300
        ELSE IF ~hasProperty(d, "deterministic") THEN 200
        ELSE IF ~hasProperty(d, "complete") THEN 201
        ELSE IF ~hasProperty(d, "colored") THEN 202
        ELSE 0

\* The status main returns from its semantic checks, 0 when all of them pass.
validationCode(d) ==
    LET f == accParams(d)
    IN  IF d.accNameID /= "parity" THEN 100
        ELSE IF ~f.foundOrd THEN 101
        ELSE IF ~f.foundRes THEN 102
        ELSE IF ~hasProperty(d, "deterministic") THEN 200
        ELSE IF ~hasProperty(d, "complete") THEN 201
        ELSE IF ~hasProperty(d, "colored") THEN 202
        ELSE IF Len(d.start) /= 1 THEN 300
        ELSE 0

(***************************************************************************)
(* hoa2pg.c: main, the game construction                                   *)
(***************************************************************************)
\* Step 1: the APs i in 0..noAPs-1 that are not in cntAPs, in increasing order.
RECURSIVE uncontrollable(_, _)
uncontrollable(d, i) ==
    IF i >= d.noAPs THEN <<>>
    ELSE IF \E k \in 1..Len(d.cntAPs) : d.cntAPs[k] = i
         THEN uncontrollable(d, i + 1)
         ELSE <<i>> \o uncontrollable(d, i + 1)

numUcntAPs == Len(ucntAPs)
numValuations == Pow2(numUcntAPs)

\* Lines of the output.
HeaderLine(n) ==
    [kind |-> "header", id |-> n, prio |-> 0, owner |-> 0, succs |-> <<>>, label |-> ""]
VertexLine(id, prio, owner, succs, label) ==
    [kind |-> "vertex", id |-> id, prio |-> prio, owner |-> owner, succs |-> succs,
     label |-> label]

\* printf("parity %d;\n", (nextIndex * (numValuations + 1)) - 1)
declaredMax(noStates, numVals) == (noStates * (numVals + 1)) - 1

\* The label and the acceptance signature in force for a transition.
effLabel(st, tr) == IF st.label /= Null THEN st.label ELSE tr.label
effAcc(st, tr) == IF st.accSig = <<>> THEN tr.accSig ELSE st.accSig

\* compatible only for a label that is definitely true.
compatible_onlyTrue(evald) == evald = 1

\* if (evald != -1)
compatible(evald) == evald /= -1

\* The line of a compatible-transition vertex.
transLine(fullVal, priority, tr) ==
    VertexLine(fullVal, priority, 0, <<tr.successors[1]>>, ToString(fullVal))

\* valuationLine writing the list back to front.
valuationLine_backToFront(partVal, vals) ==
    VertexLine(partVal, 0, 0, Reverse(vals), ToString(partVal))

\* The line of a valuation vertex: validVals->i, then the rest of the list.
valuationLine(partVal, vals) ==
    VertexLine(partVal, 0, 0, vals, ToString(partVal))

\* The line of a decision vertex: firstSucc, then every succ of the loop.
decisionLine(st, first, numVals) ==
    VertexLine(st.id, 0, 1,
               <<first>> \o [k \in 1..numVals |-> first + k - 1],
               IF st.name /= "" THEN st.name ELSE ToString(st.id))

curState == data.states[state]
curTrans == curState.transitions[trans]

\* The semantic checks: leave with the status of the first failing check,
\* or go on with maxPriority and winRes set.
Validate ==
    /\ pc = "validate"
    /\ LET code == validationCode(data)
           f == accParams(data)
       IN  IF code /= 0
           THEN /\ pc' = "exit"
                /\ ret' = code
                /\ UNCHANGED <<maxPriority, winRes>>
           ELSE /\ pc' = "prepare"
                /\ maxPriority' = f.maxPriority
                /\ winRes' = f.winRes
                /\ UNCHANGED ret
    /\ UNCHANGED <<data, out, ucntAPs, nextIndex, state, firstSucc, value, trans,
                   validVals, args, result>>

\* Step 1 and the header of the PGSolver file.
Prepare ==
    /\ pc = "prepare"
    /\ ucntAPs' = uncontrollable(data, 0)
    /\ nextIndex' = data.noStates
    /\ out' = Append(out, HeaderLine(declaredMax(data.noStates, Pow2(Len(ucntAPs')))))
    /\ state' = 1
    /\ pc' = "state"
    /\ UNCHANGED <<data, ret, maxPriority, winRes, firstSucc, value, trans,
                   validVals, args, result>>

\* The head of the loop over the states.
NextState ==
    /\ pc = "state"
    /\ state <= Len(data.states)
    /\ firstSucc' = nextIndex
    /\ nextIndex' = nextIndex + numValuations
    /\ value' = 0
    /\ pc' = "value"
    /\ UNCHANGED <<data, ret, out, maxPriority, winRes, ucntAPs, state, trans,
                   validVals, args, result>>

\* The head of the loop over the valuations.
NextValuation ==
    /\ pc = "value"
    /\ IF value < numValuations
       THEN /\ validVals' = <<>>
            /\ trans' = 1
            /\ pc' = "trans"
       ELSE /\ pc' = "decision"
            /\ UNCHANGED <<validVals, trans>>
    /\ UNCHANGED <<data, ret, out, maxPriority, winRes, ucntAPs, nextIndex, state,
                   firstSucc, value, args, result>>

\* The body of the loop over the transitions of the state.
Transition ==
    /\ pc = "trans"
    /\ trans <= Len(curState.transitions)
    /\ LET label == effLabel(curState, curTrans)
           acc == effAcc(curState, curTrans)
           priority == adjustPriority(acc[1], maxPriority, winRes, data.noAccSets)
           evald == evalLabel(label, data.aliases, numUcntAPs, ucntAPs, value)
       IN  IF compatible(evald)
           THEN LET fullVal == nextIndex
                IN  /\ nextIndex' = nextIndex + 1
                    /\ out' = Append(out, transLine(fullVal, priority, curTrans))
                    /\ validVals' = prependIntNode(validVals, fullVal)
           ELSE UNCHANGED <<nextIndex, out, validVals>>
    /\ trans' = trans + 1
    /\ UNCHANGED <<data, pc, ret, maxPriority, winRes, ucntAPs, state, firstSucc,
                   value, args, result>>

\* After the transitions: the valuation vertex.
EmitValuation ==
    /\ pc = "trans"
    /\ trans > Len(curState.transitions)
    /\ validVals /= <<>>
    /\ out' = Append(out, valuationLine(firstSucc + value, validVals))
    /\ value' = value + 1
    /\ pc' = "value"
    /\ UNCHANGED <<data, ret, maxPriority, winRes, ucntAPs, nextIndex, state,
                   firstSucc, trans, validVals, args, result>>

\* assert(validVals != NULL) fails, or, the assertion compiled out, validVals->i
\* reads through a null pointer: the process is killed (SIGABRT or SIGSEGV).
NoCompatibleTransition ==
    /\ pc = "trans"
    /\ trans > Len(curState.transitions)
    /\ validVals = <<>>
    /\ pc' = "crash"
    /\ ret' \in {134, 139}
    /\ UNCHANGED <<data, out, maxPriority, winRes, ucntAPs, nextIndex, state,
                   firstSucc, value, trans, validVals, args, result>>

\* After the valuations: the decision vertex of the state.
EmitDecision ==
    /\ pc = "decision"
    /\ out' = Append(out, decisionLine(curState, firstSucc, numValuations))
    /\ state' = state + 1
    /\ pc' = "state"
    /\ UNCHANGED <<data, ret, maxPriority, winRes, ucntAPs, nextIndex, firstSucc,
                   value, trans, validVals, args, result>>

\* After the states: return EXIT_SUCCESS.
Finish ==
    /\ pc = "state"
    /\ state > Len(data.states)
    /\ pc' = "done"
    /\ ret' = 0
    /\ UNCHANGED <<data, out, maxPriority, winRes, ucntAPs, nextIndex, state,
                   firstSucc, value, trans, validVals, args, result>>

Next ==
    \/ Validate
    \/ Prepare
    \/ NextState
    \/ NextValuation
    \/ Transition
    \/ EmitValuation
    \/ NoCompatibleTransition
    \/ EmitDecision
    \/ Finish
(***************************************************************************)
(* The parsed automata the runs start from                                 *)
(***************************************************************************)
tt == boolBTree(TRUE)
ff == boolBTree(FALSE)
ap0 == apBTree(0)
ap1 == apBTree(1)

\* The alias table of the automata: "a" is bound twice (the first entry is
\* the one found), "c" is bound to another alias, "b" is not bound.
InputAliases ==
    <<Alias("a", notBTree(ap0)), Alias("a", ff), Alias("c", aliasBTree("a"))>>

\* A transition of a shape: its label, the offset of its successor from the
\* state's own id, and its acceptance signature.
ShapeTrans(label, off, accSig) == [label |-> label, off |-> off, accSig |-> accSig]

\* The shapes of a state: name, state label, state acceptance signature and
\* transitions.
StateShapes ==
    { \* transition-labelled, complete and deterministic over AP 0
      [name |-> "", label |-> Null, accSig |-> <<>>,
       trans |-> <<ShapeTrans(ap0, 1, <<0>>), ShapeTrans(notBTree(ap0), 0, <<1>>)>>],
      \* a single transition labelled true, named state
      [name |-> "init", label |-> Null, accSig |-> <<>>,
       trans |-> <<ShapeTrans(tt, 0, <<1>>)>>],
      \* state-labelled and state-coloured: the transitions' own are overridden
      [name |-> "", label |-> orBTree(ap1, tt), accSig |-> <<1>>,
       trans |-> <<ShapeTrans(ff, 0, <<0>>), ShapeTrans(Null, 1, <<>>)>>],
      \* declared complete, but no transition when APs 0 and 1 are both false
      [name |-> "", label |-> Null, accSig |-> <<>>,
       trans |-> <<ShapeTrans(andBTree(ap0, ap1), 0, <<0>>),
                   ShapeTrans(andBTree(notBTree(ap0), ap1), 1, <<1>>),
                   ShapeTrans(andBTree(ap0, notBTree(ap1)), 1, <<0>>)>>],
      \* labels through aliases, one of them not in the alias table
      [name |-> "", label |-> Null, accSig |-> <<>>,
       trans |-> <<ShapeTrans(aliasBTree("c"), 0, <<0>>),
                   ShapeTrans(aliasBTree("b"), 1, <<1>>),
                   ShapeTrans(ap0, 1, <<0>>)>>],
      \* overlapping transitions over AP 1
      [name |-> "q", label |-> Null, accSig |-> <<>>,
       trans |-> <<ShapeTrans(ap1, 1, <<0>>), ShapeTrans(tt, 0, <<1>>),
                   ShapeTrans(notBTree(ap1), 1, <<0>>)>>] }

\* The StateList node of a shape for the state with the given id.
MakeState(shape, id, noStates) ==
    [id |-> id, name |-> shape.name, label |-> shape.label, accSig |-> shape.accSig,
     transitions |->
        [j \in 1..Len(shape.trans) |->
            [label |-> shape.trans[j].label,
             successors |-> <<(id + shape.trans[j].off) % noStates>>,
             accSig |-> shape.trans[j].accSig]]]

\* The state list of the shapes; the list is either in the order of the ids
\* or in the reverse order.
MakeStates(shapes, rev) ==
    LET n == Len(shapes)
    IN  [k \in 1..n |-> MakeState(shapes[k], IF rev THEN n - k ELSE k - 1, n)]

HoaData(id, params, props, start, noAccSets, cnt, states) ==
    [accNameID |-> id, accNameParameters |-> params, properties |-> props,
     start |-> start, noStates |-> Len(states), noAccSets |-> noAccSets,
     noAPs |-> 2, cntAPs |-> cnt, aliases |-> InputAliases, states |-> states]

ParamTokens == {"max", "min", "even", "odd"}

AllProperties == <<"deterministic", "complete", "colored">>

PropertyLists ==
    {SelectSeq(AllProperties, LAMBDA x : x \in S) : S \in SUBSET Range(AllProperties)}
        \cup {<<"colored", "stutter-invariant", "complete", "deterministic">>}

TrivialStates ==
    MakeStates(<<[name |-> "", label |-> Null, accSig |-> <<>>,
                  trans |-> <<ShapeTrans(tt, 0, <<0>>)>>]>>, FALSE)

\* Every header, over one small automaton.
GateInputs ==
    {HoaData(id, params, props, start, 1, <<0>>, TrivialStates) :
        id \in {"parity", "Rabin"},
        params \in SeqsUpTo(ParamTokens, MaxParams),
        props \in PropertyLists,
        start \in {<<>>, <<0>>, <<0, 1>>}}

\* The headers that pass the checks, over every automaton of the shapes.
BuildInputs ==
    {HoaData("parity", params, AllProperties, <<0>>, noAccSets, cnt,
             MakeStates(shapes, rev)) :
        params \in {<<"max", "even">>, <<"odd", "max">>, <<"min", "even">>,
                    <<"min", "odd">>},
        noAccSets \in {MaxAccSets - 1, MaxAccSets},
        cnt \in {<<>>, <<0>>, <<1>>, <<1, 0>>},
        shapes \in SeqsUpTo(StateShapes, MaxStates) \ {<<>>},
        rev \in BOOLEAN}

Idle == <<>>

Init ==
    /\ data \in GateInputs \cup BuildInputs
    /\ pc = "validate"
    /\ ret = -1
    /\ out = <<>>
    /\ maxPriority = Undef
    /\ winRes = Undef
    /\ ucntAPs = <<>>
    /\ nextIndex = 0
    /\ state = 0
    /\ firstSucc = 0
    /\ value = 0
    /\ trans = 0
    /\ validVals = <<>>
    /\ args = Idle
    /\ result = Idle

Spec == Init /\ [][Next]_vars
(***************************************************************************)
(* adjustPriority on its own                                               *)
(***************************************************************************)
\* main's variables while a pure function is applied on its own.
ProgIdle ==
    /\ data = Idle
    /\ ret = -1
    /\ out = <<>>
    /\ maxPriority = Undef
    /\ winRes = Undef
    /\ ucntAPs = <<>>
    /\ nextIndex = 0
    /\ state = 0
    /\ firstSucc = 0
    /\ value = 0
    /\ trans = 0
    /\ validVals = <<>>

\* A number of priorities, an objective and a non-empty set S of raw
\* priorities in [0, noPriorities).
InitAdjust ==
    /\ ProgIdle
    /\ pc = "call"
    /\ \E n \in 1..MaxPriorities, m \in BOOLEAN, w \in {0, 1} :
         \E S \in (SUBSET (0..(n - 1))) \ {{}} :
            args = [noPriorities |-> n, maxPriority |-> m, winRes |-> w, S |-> S]
    /\ result = Idle

\* adjustPriority applied to every priority of S.
Adjust ==
    /\ pc = "call"
    /\ result' = [p \in args.S |->
                    adjustPriority(p, args.maxPriority, args.winRes, args.noPriorities)]
    /\ pc' = "return"
    /\ UNCHANGED <<data, ret, out, maxPriority, winRes, ucntAPs, nextIndex, state,
                   firstSucc, value, trans, validVals, args>>

NextAdjust == Adjust

SpecAdjust == InitAdjust /\ [][NextAdjust]_vars

(***************************************************************************)
(* evalLabel on its own                                                    *)
(***************************************************************************)
APs == 0..(NumAPs - 1)

Leaves ==
    {tt, ff, aliasBTree("a"), aliasBTree("b")} \cup {apBTree(i) : i \in APs}

Trees1 ==
    Leaves \cup {notBTree(l) : l \in Leaves}
           \cup {andBTree(l, r) : l \in Leaves, r \in Leaves}
           \cup {orBTree(l, r) : l \in Leaves, r \in Leaves}

Trees2 ==
    Trees1 \cup {notBTree(l) : l \in Trees1}
           \cup {andBTree(l, r) : l \in Leaves, r \in Trees1}
           \cup {andBTree(l, r) : l \in Trees1, r \in Leaves}
           \cup {orBTree(l, r) : l \in Leaves, r \in Trees1}
           \cup {orBTree(l, r) : l \in Trees1, r \in Leaves}

\* In the first table "a" is bound twice and "b" to an alias; in the second
\* "a" is not bound.
AliasTables ==
    { <<Alias("a", notBTree(apBTree(NumAPs - 1))), Alias("a", tt),
        Alias("b", aliasBTree("a"))>>,
      <<Alias("b", apBTree(0))>> }

RECURSIVE SortedSeq(_)
SortedSeq(S) ==
    IF S = {} THEN <<>>
    ELSE LET m == CHOOSE x \in S : \A y \in S : x <= y
         IN  <<m>> \o SortedSeq(S \ {m})

\* A label, an alias table, the relevant APs (in increasing order, as main
\* builds ucntAPs) and a valuation of them.
InitEval ==
    /\ ProgIdle
    /\ pc = "call"
    /\ \E label \in Trees2, aliases \in AliasTables, R \in SUBSET APs :
         \E val \in 0..(Pow2(Cardinality(R)) - 1) :
            args = [label |-> label, aliases |-> aliases, apIds |-> SortedSeq(R),
                    value |-> val]
    /\ result = Idle

Eval ==
    /\ pc = "call"
    /\ result' = evalLabel(args.label, args.aliases, Len(args.apIds), args.apIds,
                           args.value)
    /\ pc' = "return"
    /\ UNCHANGED <<data, ret, out, maxPriority, winRes, ucntAPs, nextIndex, state,
                   firstSucc, value, trans, validVals, args>>

NextEval == Eval

SpecEval == InitEval /\ [][NextEval]_vars
(***************************************************************************)
(* Properties of a run of main (specification Spec)                        *)
(***************************************************************************)
VertexIdx == {k \in 1..Len(out) : out[k].kind = "vertex"}

\* The lines of valuation vertices and of decision vertices.
ValuationIdx == {k \in VertexIdx : out[k].owner = 0 /\ out[k].prio = 0}
DecisionIdx == {k \in VertexIdx : out[k].owner = 1}

Params == Range(data.accNameParameters)

\* C1: the number declared in the header line is at least the id of every
\* vertex line written after it.
C1_DeclaredBoundCoversIds ==
    \A k \in VertexIdx : out[1].kind = "header" /\ out[k].id <= out[1].id

\* The first check of the gate that the automaton fails, 0 when it passes all.
FirstFailingCheck(d) ==
    LET P == Range(d.accNameParameters)
        Q == Range(d.properties)
    IN  IF d.accNameID /= "parity" THEN 100
        ELSE IF P \cap {"max", "min"} = {} THEN 101
        ELSE IF P \cap {"even", "odd"} = {} THEN 102
        ELSE IF "deterministic" \notin Q THEN 200
        ELSE IF "complete" \notin Q THEN 201
        ELSE IF "colored" \notin Q THEN 202
        ELSE IF Len(d.start) /= 1 THEN 300
        ELSE 0

\* C2: when a validation check fails the run ends with the exit code of the
\* first failing check and without any output line; output is written only
\* when every check passes.
C2_FailedCheckExitsBeforeOutput ==
    LET c == FirstFailingCheck(data)
    IN  /\ (c /= 0 /\ pc /= "validate") => (pc = "exit" /\ ret = c /\ out = <<>>)
        /\ (out /= <<>>) => (c = 0)

C2_Witness ==
    /\ pc = "exit"
    /\ ret = 300
    /\ out = <<>>
    /\ Len(data.start) = 2

\* C3 as claimed: construction proceeds only when the parameter list has
\* exactly one of "max"/"min" and exactly one of "even"/"odd".
C3_ExactlyOneOfEach ==
    (pc \notin {"validate", "exit"}) =>
        /\ Cardinality(Params \cap {"max", "min"}) = 1
        /\ Cardinality(Params \cap {"even", "odd"}) = 1

\* The last element of the list that is in the set T.
LastOf(list, T) ==
    list[CHOOSE k \in 1..Len(list) :
            /\ list[k] \in T
            /\ \A j \in (k + 1)..Len(list) : list[j] \notin T]

\* C3 as amended: construction proceeds only when the parameter list has at
\* least one of "max"/"min" and at least one of "even"/"odd"; with both of a
\* pair in the list the one that comes last in the list decides.
C3_AtLeastOneOfEachLastDecides ==
    (pc \notin {"validate", "exit"}) =>
        /\ Params \cap {"max", "min"} /= {}
        /\ Params \cap {"even", "odd"} /= {}
        /\ maxPriority = (LastOf(data.accNameParameters, {"max", "min"}) = "max")
        /\ winRes = (IF LastOf(data.accNameParameters, {"even", "odd"}) = "even"
                     THEN 0 ELSE 1)

C3_Witness ==
    /\ pc = "done"
    /\ {"max", "min", "even"} \subseteq Params
    /\ data.accNameParameters[1] = "max"
    /\ maxPriority = FALSE
    /\ Len(out) > 1

\* An alias reference with no entry in the alias table, in the label or in
\* the expression of an alias the label refers to.
RECURSIVE HasUnresolvedAlias(_, _)
HasUnresolvedAlias(label, aliases) ==
    CASE label.type \in {"NT_AND", "NT_OR"} ->
            \/ HasUnresolvedAlias(label.left, aliases)
            \/ HasUnresolvedAlias(label.right, aliases)
      [] label.type = "NT_NOT" -> HasUnresolvedAlias(label.left, aliases)
      [] label.type = "NT_ALIAS" ->
            LET hits == {k \in 1..Len(aliases) : aliases[k].alias = label.alias}
            IN  \/ hits = {}
                \/ HasUnresolvedAlias(
                      aliases[CHOOSE k \in hits : \A j \in hits : k <= j].labelExpr,
                      aliases)
      [] OTHER -> FALSE

\* The label of transition j of the state at position si has been evaluated.
Evaluated(si, j) ==
    /\ pc \in {"state", "value", "trans", "decision", "crash", "done"}
    /\ \/ si < state
       \/ /\ si = state
          /\ \/ pc = "decision"
             \/ pc \in {"value", "trans", "crash"} /\ value > 0
             \/ pc \in {"trans", "crash"} /\ j < trans

\* C5: once a label with an unresolved alias reference has been evaluated the
\* run has ended as a fatal fault: it goes on to no further vertex and to no
\* successful exit.
C5_UnresolvedAliasIsFatal ==
    \A si \in 1..Len(data.states) :
        \A j \in 1..Len(data.states[si].transitions) :
            LET st == data.states[si]
            IN  (Evaluated(si, j)
                    /\ HasUnresolvedAlias(effLabel(st, st.transitions[j]), data.aliases))
                => (pc = "crash" /\ ret /= 0)

\* C6 as claimed: the successors on a valuation vertex's line are in
\* increasing id order, the order in which the ids were allocated.
C6_SuccessorsInAllocationOrder ==
    \A k \in ValuationIdx :
        \A i, j \in 1..Len(out[k].succs) :
            i < j => out[k].succs[i] < out[k].succs[j]

\* C6 as amended: the successors on a valuation vertex's line are the ids of
\* the compatible-transition vertices written just before it, in the reverse
\* of the order in which they were allocated and written (decreasing ids).
C6_SuccessorsInReverseAllocationOrder ==
    \A k \in ValuationIdx :
        LET succs == out[k].succs
            n == Len(succs)
        IN  /\ n >= 1
            /\ k > n
            /\ \A i \in 1..n :
                  /\ out[k - i].kind = "vertex"
                  /\ out[k - i].id = succs[i]
            /\ \A i, j \in 1..n : i < j => succs[i] > succs[j]

C6_Witness ==
    \E k \in ValuationIdx :
        /\ Len(out[k].succs) = 3
        /\ out[k].succs[1] = out[k].succs[3] + 2

\* The positions, in the order of the walk, of the transitions of st whose
\* effective label is not definitely false under valuation v of the
\* uncontrollable APs.
CompatibleTrans(st, v) ==
    SelectSeq([j \in 1..Len(st.transitions) |-> j],
              LAMBDA j : evalLabel(effLabel(st, st.transitions[j]), data.aliases,
                                   Len(ucntAPs), ucntAPs, v) /= -1)

\* The priority of the game for the transition tr of st.
NormalizedPriority(st, tr) ==
    LET raw == effAcc(st, tr)[1]
        top == IF data.noAccSets % 2 = 0 THEN data.noAccSets ELSE data.noAccSets + 1
        forMax == IF maxPriority THEN raw ELSE top - raw
    IN  IF winRes = 0 THEN forMax + 2 ELSE forMax + 1

\* C9: when the valuation vertex of (s, v) has been written, the lines just
\* before it are one compatible-transition vertex per transition of s that
\* is not definitely false under v, in the order of the walk, each with a
\* fresh id, owner 0, the normalized priority of its transition and the
\* transition's successor as its only successor; the valuation vertex has
\* priority 0, owner 0 and exactly these vertices, at least one, as
\* successors; a run that ends successfully has written the valuation vertex
\* of every state and valuation.
C9_CompatibleTransitionVertices ==
    /\ \A k, l \in VertexIdx : k /= l => out[k].id /= out[l].id
    /\ (pc = "value" /\ value > 0) =>
          LET v == value - 1
              st == curState
              C == CompatibleTrans(st, v)
              n == Len(C)
              L == Len(out)
          IN  /\ n >= 1
              /\ L > n + 1
              /\ out[L].kind = "vertex"
              /\ out[L].id = firstSucc + v
              /\ out[L].prio = 0
              /\ out[L].owner = 0
              /\ Len(out[L].succs) = n
              /\ Range(out[L].succs) = {out[L - r].id : r \in 1..n}
              /\ \A r \in 1..n :
                    LET ln == out[L - n - 1 + r]
                        tr == st.transitions[C[r]]
                    IN  /\ ln.kind = "vertex"
                        /\ ln.owner = 0
                        /\ ln.id >= data.noStates
                        /\ ln.prio = NormalizedPriority(st, tr)
                        /\ ln.succs = <<tr.successors[1]>>
              /\ LET prev == out[L - n - 1]
                 IN  \/ prev.kind = "header"
                     \/ prev.owner = 1
                     \/ v > 0 /\ prev.id = firstSucc + v - 1
    /\ (pc = "done") =>
          Cardinality(ValuationIdx) = Len(data.states) * numValuations

C9_Witness ==
    /\ pc = "value"
    /\ value = 2
    /\ state = 2
    /\ Len(curState.transitions) = 3
    /\ Len(out[Len(out)].succs) = 2
    /\ curState.label = Null

\* C10: the decision vertex line of a state comes after all valuation and
\* compatible-transition lines of the state, carries the state's id,
\* priority 0 and owner 1, and lists the numValuations valuation-vertex ids
\* of the state, firstSucc .. firstSucc+numValuations-1, each exactly once.
C10_DecisionLine ==
    (pc = "state" /\ state > 1) =>
        LET ln == out[Len(out)]
        IN  /\ ln.kind = "vertex"
            /\ ln.id = data.states[state - 1].id
            /\ ln.prio = 0
            /\ ln.owner = 1
            /\ ln.succs = [k \in 1..numValuations |-> firstSucc + k - 1]

(***************************************************************************)
(* Properties of adjustPriority (specification SpecAdjust)                 *)
(***************************************************************************)
\* C4 as claimed: the normalized priority of every raw priority in
\* [0, noPriorities) is at least 2.
C4_AtLeastTwo ==
    (pc = "return") => \A p \in args.S : result[p] >= 2

\* C4 as amended: the normalized priority is at least 1, and at least 2
\* except for raw priority 0 under a max, odd objective; so it is never the
\* priority 0 of the other vertices.
C4_AtLeastOne ==
    (pc = "return") =>
        \A p \in args.S :
            /\ result[p] >= 1
            /\ (result[p] < 2) => (p = 0 /\ args.maxPriority /\ args.winRes = 1)

C4_Witness ==
    /\ pc = "return"
    /\ args.maxPriority
    /\ args.winRes = 1
    /\ 0 \in args.S
    /\ result[0] = 1

SetMax(S) == CHOOSE x \in S : \A y \in S : y <= x
SetMin(S) == CHOOSE x \in S : \A y \in S : x <= y

\* C8: the largest normalized priority of a non-empty set S of raw
\* priorities is even exactly when the dominant raw priority of S (the
\* largest under max, the smallest under min) has the winning parity.
C8_WinnerPreserved ==
    (pc = "return") =>
        LET dominant == IF args.maxPriority THEN SetMax(args.S) ELSE SetMin(args.S)
            top == SetMax({result[p] : p \in args.S})
        IN  (top % 2 = 0) <=> (dominant % 2 = args.winRes)

C8_Witness ==
    /\ pc = "return"
    /\ ~args.maxPriority
    /\ args.noPriorities = 3
    /\ args.S = {1, 2}
    /\ args.winRes = 1
    /\ SetMax({result[p] : p \in args.S}) % 2 = 0

(***************************************************************************)
(* Properties of evalLabel (specification SpecEval)                        *)
(***************************************************************************)
\* The truth of a label when exactly the APs of A are true.
RECURSIVE Holds(_, _, _)
Holds(label, aliases, A) ==
    CASE label.type = "NT_BOOL" -> label.id /= 0
      [] label.type = "NT_AND" -> Holds(label.left, aliases, A) /\ Holds(label.right, aliases, A)
      [] label.type = "NT_OR" -> Holds(label.left, aliases, A) \/ Holds(label.right, aliases, A)
      [] label.type = "NT_NOT" -> ~Holds(label.left, aliases, A)
      [] label.type = "NT_AP" -> label.id \in A
      [] label.type = "NT_ALIAS" ->
            LET hits == {k \in 1..Len(aliases) : aliases[k].alias = label.alias}
            IN  Holds(aliases[CHOOSE k \in hits : \A j \in hits : k <= j].labelExpr,
                      aliases, A)

\* The total assignments that agree with the valuation on the relevant APs.
Extensions(apIds, val) ==
    {A \in SUBSET APs :
        \A k \in 1..Len(apIds) : (apIds[k] \in A) <=> ((val \div Pow2(k - 1)) % 2 = 1)}

AlwaysFalse == \A A \in Extensions(args.apIds, args.value) : ~Holds(args.label, args.aliases, A)
AlwaysTrue == \A A \in Extensions(args.apIds, args.value) : Holds(args.label, args.aliases, A)

Resolvable == ~HasUnresolvedAlias(args.label, args.aliases)

\* C7 as claimed: evalLabel returns -1 exactly when the label is false under
\* every extension of the valuation, 1 exactly when it is true under every
\* extension, and 0 otherwise.
C7_DecidesSatisfiability ==
    (pc = "return" /\ Resolvable) =>
        /\ (result = -1) <=> AlwaysFalse
        /\ (result = 1) <=> AlwaysTrue
        /\ (result = 0) <=> (~AlwaysFalse /\ ~AlwaysTrue)

\* C7 as amended: evalLabel returns -1 only when the label is false under
\* every extension of the valuation, 1 only when it is true under every
\* extension, and 0 whenever it is true under one and false under another;
\* it may return 0 as well for a label that all extensions agree on.
C7_SoundThreeValued ==
    (pc = "return" /\ Resolvable) =>
        /\ result \in {-1, 0, 1}
        /\ (result = -1) => AlwaysFalse
        /\ (result = 1) => AlwaysTrue
        /\ (~AlwaysFalse /\ ~AlwaysTrue) => (result = 0)

C7_Witness ==
    /\ pc = "return"
    /\ Resolvable
    /\ args.label = andBTree(aliasBTree("b"), orBTree(apBTree(0), ff))
    /\ args.apIds = <<0, 1>>
    /\ args.value = 3
    /\ Len(args.aliases) = 3
    /\ result = -1

====
